---- MODULE Spec2Model ----
(***************************************************************************)
(* The Emote component of src/src/App.tsx: the React state of the          *)
(* component, the model loader, the image upload handler, the asynchronous *)
(* detectEmotion handler (face localizer -> crop -> normalizer ->          *)
(* classifier) and the filter/sort the render applies to the stored        *)
(* predictions.                                                            *)
(*                                                                         *)
(* Numbers.  Probabilities are integers in units of 10^-6, so the raw      *)
(* value 0.01 is 10000, the scaling "prob * 100" is a real multiplication  *)
(* by 100 and the render's threshold 0.0001 is 100.  Landmark coordinates  *)
(* are whole pixels whose ear-to-ear differences are even, so that         *)
(* (left - right) / 2 is exact.                                            *)
(***************************************************************************)
EXTENDS Integers, Sequences, FiniteSets, TLC

VARIABLES
    selectedImage,       \* useState: data URL of the chosen image, or NoImage
    prediction,          \* useState: the status string, or "null"
    emotionPredictions,  \* useState: Null or Some(<<EmotionPrediction, ...>>)
    isLoading,           \* useState: the loading flag
    models,              \* useState: the two model handles, "null" or "loaded"
    loadPc,              \* where the loadModels effect stands
    readers,             \* FileReaders whose onload has not fired yet
    inflight,            \* detectEmotion calls suspended at an await
    lastRun              \* how the most recent detectEmotion call ended

vars == <<selectedImage, prediction, emotionPredictions, isLoading, models,
          loadPc, readers, inflight, lastRun>>

----------------------------------------------------------------------------
(* Bounds of the model *)

MaxImages == 2
MaxReaders == 1
MaxInFlight == 2
MaxFaces == 2
MaxVecLen == 8

----------------------------------------------------------------------------
(* Values *)

NoImage == 0
Images == 1..MaxImages

Null == [null |-> TRUE, value |-> <<>>]
Some(v) == [null |-> FALSE, value |-> v]

StatusAnalyzed == "Face detected and emotion analyzed!"
StatusNoFace == "No faces detected"
StatusError == "Error detecting faces"

emotions == <<"Angry", "Disgust", "Fear", "Happy", "Neutral", "Sad", "Surprised">>

\* emotions[idx] for a 1-based idx; JavaScript yields undefined past the end
EmotionAt(idx) == IF idx \in 1..Len(emotions) THEN emotions[idx] ELSE "undefined"

Abs(n) == IF n < 0 THEN -n ELSE n

RemoveAt(s, i) == [j \in 1..(Len(s) - 1) |-> IF j < i THEN s[j] ELSE s[j + 1]]

----------------------------------------------------------------------------
(* Inputs the collaborators can produce *)

NosePoints == {<<2, 3>>, <<20, 30>>}
EarXs == {0, 10, 16}

\* one detected face: blazeface's six landmarks <<x, y>>; 1-based positions
\* 3, 5 and 6 are landmarks[2], landmarks[4] and landmarks[5] of the source
Face(nose, right, left) ==
    [landmarks |-> <<<<0, 0>>, <<0, 0>>, nose, <<0, 0>>, <<right, 0>>, <<left, 0>>>>]

Faces == {Face(n, r, l) : n \in NosePoints, r \in EarXs, l \in EarXs}

\* faces reported after the first one
OtherFaces == {Face(<<2, 3>>, 10, 0), Face(<<20, 30>>, 0, 16)}

SeqsUpTo(S, n) == UNION {[1..k -> S] : k \in 0..n}

FaceLists == {<<>>} \cup {<<f>> \o rest : f \in Faces, rest \in SeqsUpTo(OtherFaces, MaxFaces - 1)}

\* the classifier may break its contract by one entry less or by more
MinVecLen == Len(emotions) - 1

\* a probability vector of length n: 0.95 at k, 0.000001 elsewhere
PeakedVector(n, k) == [i \in 1..n |-> IF i = k THEN 950000 ELSE 1]

ExampleVector == <<10000, 0, 0, 950000, 20000, 10000, 10000>>

ClassifierOutputs ==
    {ExampleVector} \cup
    UNION {{PeakedVector(n, 1), PeakedVector(n, n)} : n \in MinVecLen..MaxVecLen}

----------------------------------------------------------------------------
(* Pure steps of detectEmotion *)

Margin == 5

\* const length = (left - right) / 2 + 5
length(left, right) == (left - right) \div 2 + Margin

Max(a, b) == IF a > b THEN a ELSE b

\* the region with its corner clamped to the image
CropRegionClamped(landmarks) ==
    LET len == length(landmarks[6][1], landmarks[5][1])
    IN  [x |-> Max(0, landmarks[3][1] - len), y |-> Max(0, landmarks[3][2] - len),
         width |-> 2 * len, height |-> 2 * len]

\* the arguments of ctx.getImageData(nosex - length, nosey - length, 2 * length, 2 * length)
CropRegion(landmarks) ==
    LET nosex == landmarks[3][1]
        nosey == landmarks[3][2]
        right == landmarks[5][1]
        left == landmarks[6][1]
        len == length(left, right)
    IN  [x |-> nosex - len, y |-> nosey - len, width |-> 2 * len, height |-> 2 * len]

\* CanvasRenderingContext2D.getImageData: IndexSizeError when a side is 0, a
\* negative side measures the rectangle the other way, no clamping to the canvas
getImageData(sx, sy, sw, sh) ==
    [throws |-> (sw = 0 \/ sh = 0), width |-> Abs(sw), height |-> Abs(sh)]

\* tensor shapes
fromPixels(imageData) == <<imageData.height, imageData.width, 3>>
resizeBilinear(shape, size) == <<size[1], size[2], shape[3]>>
mean(shape, axis) == [j \in 1..(Len(shape) - 1) |-> IF j <= axis THEN shape[j] ELSE shape[j + 1]]
expandDims(shape, axis) ==
    LET at == IF axis < 0 THEN Len(shape) + 1 + axis ELSE axis
    IN  [j \in 1..(Len(shape) + 1) |->
            IF j <= at THEN shape[j] ELSE IF j = at + 1 THEN 1 ELSE shape[j - 1]]

InputSize == 48

\* the chain without expandDims(0)
imageTensorNoBatch(faceData) ==
    expandDims(mean(resizeBilinear(fromPixels(faceData), <<InputSize, InputSize>>), 2), -1)

\* fromPixels(faceData).resizeBilinear([48, 48]).mean(2).toFloat().expandDims(0).expandDims(-1)
imageTensor(faceData) ==
    expandDims(expandDims(mean(resizeBilinear(fromPixels(faceData), <<InputSize, InputSize>>), 2), 0), -1)

Scale == 100

\* the map with the label index one too far
emotionResultsShifted(probs) ==
    [idx \in 1..Len(probs) |-> [emotion |-> EmotionAt(idx + 1), probability |-> probs[idx] * Scale]]

\* predictions[0].map((prob, idx) => ({emotion: emotions[idx], probability: prob * 100}))
emotionResults(probs) ==
    [idx \in 1..Len(probs) |-> [emotion |-> EmotionAt(idx), probability |-> probs[idx] * Scale]]

----------------------------------------------------------------------------
(* The render's view of the stored predictions *)

Threshold == 100

\* the filter with >= for >
visibleInclusive(p) == p.probability >= Threshold

\* .filter(({ probability }) => probability > 0.0001)
visible(p) == p.probability > Threshold

\* .sort((a, b) => b.probability - a.probability): the comparator
compare(a, b) == b.probability - a.probability

filter(s) == SelectSeq(s, visible)

\* an insertion that puts e in front of its equals
InsertBeforeEqual(s, e) ==
    LET later == {j \in 1..Len(s) : compare(s[j], e) >= 0}
        at == IF later = {} THEN Len(s) + 1 ELSE CHOOSE j \in later : \A k \in later : j <= k
    IN  SubSeq(s, 1, at - 1) \o <<e>> \o SubSeq(s, at, Len(s))

\* e placed in the sorted sequence s behind every element the comparator does
\* not order after it
Insert(s, e) ==
    LET later == {j \in 1..Len(s) : compare(s[j], e) > 0}
        at == IF later = {} THEN Len(s) + 1 ELSE CHOOSE j \in later : \A k \in later : j <= k
    IN  SubSeq(s, 1, at - 1) \o <<e>> \o SubSeq(s, at, Len(s))

RECURSIVE SortPrefix(_, _)
SortPrefix(s, n) == IF n = 0 THEN <<>> ELSE Insert(SortPrefix(s, n - 1), s[n])

\* Array.prototype.sort, which is stable
sort(s) == SortPrefix(s, Len(s))

\* emotionPredictions.filter(...).sort(...), the entries the render lists
rendered(preds) == sort(filter(preds))

\* what the "Result:" block shows
shownResults ==
    IF prediction # "null" /\ ~emotionPredictions.null
    THEN Some(rendered(emotionPredictions.value))
    ELSE Null

----------------------------------------------------------------------------
(* The component *)

Init ==
    /\ selectedImage = NoImage
    /\ prediction = "null"
    /\ emotionPredictions = Null
    /\ isLoading = FALSE
    /\ models = [faceDetector |-> "null", emotionDetector |-> "null"]
    /\ loadPc = "blazeface.load"
    /\ readers = <<>>
    /\ inflight = <<>>
    /\ lastRun = [exit |-> "none", calls |-> <<>>]

\* refs of the <img> and <canvas>, mounted exactly while an image is selected
imageRef == IF selectedImage # NoImage THEN "img" ELSE "null"
canvasRef == IF selectedImage # NoImage THEN "canvas" ELSE "null"

(* loadModels *)

BlazefaceLoaded ==
    /\ loadPc = "blazeface.load"
    /\ loadPc' = "tf.loadLayersModel"
    /\ UNCHANGED <<selectedImage, prediction, emotionPredictions, isLoading, models,
                   readers, inflight, lastRun>>

LayersModelLoaded ==
    /\ loadPc = "tf.loadLayersModel"
    /\ loadPc' = "done"
    /\ models' = [faceDetector |-> "loaded", emotionDetector |-> "loaded"]
    /\ UNCHANGED <<selectedImage, prediction, emotionPredictions, isLoading,
                   readers, inflight, lastRun>>

LoadModelsFails ==
    /\ loadPc \in {"blazeface.load", "tf.loadLayersModel"}
    /\ loadPc' = "failed"
    /\ UNCHANGED <<selectedImage, prediction, emotionPredictions, isLoading, models,
                   readers, inflight, lastRun>>

(* handleImageUpload *)

\* event.target.files?.[0] of a change event that carries no file
NoFile == 0

\* if (file) { reader.onload = ...; reader.readAsDataURL(file) }
handleImageUpload(file) ==
    IF file = NoFile
    THEN UNCHANGED vars
    ELSE /\ Len(readers) < MaxReaders
         /\ readers' = Append(readers, file)
         /\ UNCHANGED <<selectedImage, prediction, emotionPredictions, isLoading, models,
                        loadPc, inflight, lastRun>>

\* reader.onload; isString: typeof e.target?.result === 'string'
ReaderOnload(i, isString) ==
    /\ i \in 1..Len(readers)
    /\ IF isString
       THEN /\ selectedImage' = readers[i]
            /\ emotionPredictions' = Null
            /\ prediction' = "null"
       ELSE UNCHANGED <<selectedImage, emotionPredictions, prediction>>
    /\ readers' = RemoveAt(readers, i)
    /\ UNCHANGED <<isLoading, models, loadPc, inflight, lastRun>>

(* detectEmotion *)

\* the Button without its isLoading test
ButtonDisabledIgnoresLoading ==
    \/ selectedImage = NoImage
    \/ models.faceDetector = "null"
    \/ models.emotionDetector = "null"

\* disabled={!selectedImage || isLoading || !models.faceDetector || !models.emotionDetector}
ButtonDisabled ==
    \/ selectedImage = NoImage
    \/ isLoading
    \/ models.faceDetector = "null"
    \/ models.emotionDetector = "null"

\* the guard without its two model tests
GuardReturnsIgnoresModels ==
    \/ selectedImage = NoImage
    \/ imageRef = "null"

\* if (!selectedImage || !imageRef.current || !models.faceDetector || !models.emotionDetector) return;
GuardReturns ==
    \/ selectedImage = NoImage
    \/ imageRef = "null"
    \/ models.faceDetector = "null"
    \/ models.emotionDetector = "null"

\* a call that ends without having been suspended: it leaves by the return of
\* the given line after the finally block has run
ReturnsAt(line) ==
    /\ isLoading' = FALSE
    /\ lastRun' = [exit |-> line, calls |-> <<>>]
    /\ UNCHANGED <<selectedImage, prediction, emotionPredictions, models, loadPc,
                   readers, inflight>>

\* the catch block without the finally block after it
CatchWithoutFinally(calls, rest) ==
    /\ prediction' = StatusError
    /\ inflight' = rest
    /\ lastRun' = [exit |-> "error", calls |-> calls]
    /\ UNCHANGED <<selectedImage, emotionPredictions, isLoading, models, loadPc, readers>>

\* catch (error) { setPrediction("Error detecting faces") } finally { setIsLoading(false) }
Catch(calls, rest) ==
    /\ prediction' = StatusError
    /\ isLoading' = FALSE
    /\ inflight' = rest
    /\ lastRun' = [exit |-> "error", calls |-> calls]
    /\ UNCHANGED <<selectedImage, emotionPredictions, models, loadPc, readers>>

\* lines 85-106: the call up to its first await.  ctxOk: canvas.getContext('2d')
\* is not null; drawOk: drawImage and the first getImageData do not throw
detectEmotion(ctxOk, drawOk) ==
    IF GuardReturns
    THEN /\ lastRun' = [exit |-> "line86", calls |-> <<>>]
         /\ UNCHANGED <<selectedImage, prediction, emotionPredictions, isLoading,
                        models, loadPc, readers, inflight>>
    ELSE IF canvasRef = "null" THEN ReturnsAt("line93")
    ELSE IF ~ctxOk THEN ReturnsAt("line96")
    ELSE IF ~drawOk THEN Catch(<<>>, inflight)
    ELSE IF models.faceDetector = "null" THEN Catch(<<>>, inflight)
    ELSE /\ Len(inflight) < MaxInFlight
         /\ isLoading' = TRUE
         /\ inflight' = Append(inflight,
                [pc |-> "estimateFaces", image |-> selectedImage,
                 calls |-> <<"estimateFaces">>, faces |-> 0, landmarks |-> <<>>,
                 crop |-> <<>>, tensor |-> <<>>])
         /\ UNCHANGED <<selectedImage, prediction, emotionPredictions, models,
                        loadPc, readers, lastRun>>

\* onClick={detectEmotion} of a Button that is not disabled
Click(ctxOk, drawOk) ==
    /\ ~ButtonDisabled
    /\ detectEmotion(ctxOk, drawOk)

\* the else branch without setEmotionPredictions(null)
NoFacesKeepsResults(req, rest) ==
    /\ prediction' = StatusNoFace
    /\ isLoading' = FALSE
    /\ inflight' = rest
    /\ lastRun' = [exit |-> "noFace", calls |-> req.calls]
    /\ UNCHANGED <<selectedImage, emotionPredictions, models, loadPc, readers>>

\* lines 145-148: the else branch of faces.length > 0
NoFaces(req, rest) ==
    /\ prediction' = StatusNoFace
    /\ emotionPredictions' = Null
    /\ isLoading' = FALSE
    /\ inflight' = rest
    /\ lastRun' = [exit |-> "noFace", calls |-> req.calls]
    /\ UNCHANGED <<selectedImage, models, loadPc, readers>>

\* await models.faceDetector.estimateFaces(imageData) rejects
LocalizerRejects(i) ==
    /\ i \in 1..Len(inflight)
    /\ inflight[i].pc = "estimateFaces"
    /\ Catch(inflight[i].calls, RemoveAt(inflight, i))

\* the face reported last
lastFace(faces) == faces[Len(faces)]

\* const face = faces[0]
firstFace(faces) == faces[1]

\* lines 106-130 and 145-148: estimateFaces resolves with faces; the request
\* keeps faces.length, the landmarks read, the crop and the tensor shape
LocalizerResolves(i, faces) ==
    /\ i \in 1..Len(inflight)
    /\ inflight[i].pc = "estimateFaces"
    /\ LET req == inflight[i]
           rest == RemoveAt(inflight, i)
       IN  IF Len(faces) > 0
           THEN LET landmarks == firstFace(faces).landmarks
                    crop == CropRegion(landmarks)
                    faceData == getImageData(crop.x, crop.y, crop.width, crop.height)
                    cropped == Append(req.calls, "getImageData")
                IN  IF faceData.throws THEN Catch(cropped, rest)
                    ELSE IF models.emotionDetector = "null" THEN Catch(cropped, rest)
                    ELSE /\ inflight' = [inflight EXCEPT ![i] =
                                [pc |-> "array", image |-> req.image,
                                 calls |-> Append(cropped, "predict"),
                                 faces |-> Len(faces),
                                 landmarks |-> landmarks,
                                 crop |-> <<crop.x, crop.y, crop.width, crop.height>>,
                                 tensor |-> imageTensor(faceData)]]
                         /\ UNCHANGED <<selectedImage, prediction, emotionPredictions,
                                        isLoading, models, loadPc, readers, lastRun>>
           ELSE NoFaces(req, rest)

\* models.emotionDetector.predict(imageTensor) or await result.array() fails
ClassifierRejects(i) ==
    /\ i \in 1..Len(inflight)
    /\ inflight[i].pc = "array"
    /\ Catch(inflight[i].calls, RemoveAt(inflight, i))

\* lines 130-144: result.array() resolves with [probs]
ClassifierResolves(i, probs) ==
    /\ i \in 1..Len(inflight)
    /\ inflight[i].pc = "array"
    /\ emotionPredictions' = Some(emotionResults(probs))
    /\ prediction' = StatusAnalyzed
    /\ isLoading' = FALSE
    /\ inflight' = RemoveAt(inflight, i)
    /\ lastRun' = [exit |-> "ranked", calls |-> inflight[i].calls]
    /\ UNCHANGED <<selectedImage, models, loadPc, readers>>

----------------------------------------------------------------------------
(* The component as the page runs it: detectEmotion is reached only through
   the Button *)

Next ==
    \/ BlazefaceLoaded
    \/ LayersModelLoaded
    \/ LoadModelsFails
    \/ \E file \in Images \cup {NoFile} : handleImageUpload(file)
    \/ \E i \in 1..MaxReaders, isString \in BOOLEAN : ReaderOnload(i, isString)
    \/ \E ctxOk \in BOOLEAN, drawOk \in BOOLEAN : Click(ctxOk, drawOk)
    \/ \E i \in 1..MaxInFlight : LocalizerRejects(i)
    \/ \E i \in 1..MaxInFlight, faces \in FaceLists : LocalizerResolves(i, faces)
    \/ \E i \in 1..MaxInFlight : ClassifierRejects(i)
    \/ \E i \in 1..MaxInFlight, probs \in ClassifierOutputs : ClassifierResolves(i, probs)

Spec == Init /\ [][Next]_vars

----------------------------------------------------------------------------
(* detectEmotion called as a function, whatever the Button shows *)

\* the localizer's answers in these runs: no face, or one well-formed face
DirectFaceLists == {<<>>, <<Face(<<20, 30>>, 0, 16)>>}

NextDirect ==
    \/ BlazefaceLoaded
    \/ LayersModelLoaded
    \/ LoadModelsFails
    \/ \E file \in Images \cup {NoFile} : handleImageUpload(file)
    \/ \E i \in 1..MaxReaders, isString \in BOOLEAN : ReaderOnload(i, isString)
    \/ \E ctxOk \in BOOLEAN, drawOk \in BOOLEAN : detectEmotion(ctxOk, drawOk)
    \/ \E i \in 1..MaxInFlight : LocalizerRejects(i)
    \/ \E i \in 1..MaxInFlight, faces \in DirectFaceLists : LocalizerResolves(i, faces)
    \/ \E i \in 1..MaxInFlight : ClassifierRejects(i)
    \/ \E i \in 1..MaxInFlight, probs \in {ExampleVector} : ClassifierResolves(i, probs)

SpecDirect == Init /\ [][NextDirect]_vars

----------------------------------------------------------------------------
(* The localizer's answer over every list of faces: one request stands at
   await estimateFaces after the first upload and Click, and is followed to
   its end while further files may be chosen *)

InitFaces ==
    /\ selectedImage = 1
    /\ prediction = "null"
    /\ emotionPredictions = Null
    /\ isLoading = TRUE
    /\ models = [faceDetector |-> "loaded", emotionDetector |-> "loaded"]
    /\ loadPc = "done"
    /\ readers = <<>>
    /\ inflight = <<[pc |-> "estimateFaces", image |-> 1,
                     calls |-> <<"estimateFaces">>, faces |-> 0, landmarks |-> <<>>,
                     crop |-> <<>>, tensor |-> <<>>]>>
    /\ lastRun = [exit |-> "none", calls |-> <<>>]

NextFaces ==
    /\ inflight # <<>>
    /\ \/ \E file \in Images \cup {NoFile} : handleImageUpload(file)
       \/ \E i \in 1..MaxReaders, isString \in BOOLEAN : ReaderOnload(i, isString)
       \/ LocalizerRejects(1)
       \/ \E faces \in FaceLists : LocalizerResolves(1, faces)
       \/ ClassifierRejects(1)
       \/ \E probs \in ClassifierOutputs : ClassifierResolves(1, probs)

SpecFaces == InitFaces /\ [][NextFaces]_vars

----------------------------------------------------------------------------
(* The classifier's answer over every vector of a small value range: one
   request stands at await result.array() after the first upload and Click *)

MaxRaw == 3

RankerVectors == [1..Len(emotions) -> 0..MaxRaw] \cup {ExampleVector}

RankerFace == Face(<<20, 30>>, 0, 16)

InitRanker ==
    /\ selectedImage = 1
    /\ prediction = "null"
    /\ emotionPredictions = Null
    /\ isLoading = TRUE
    /\ models = [faceDetector |-> "loaded", emotionDetector |-> "loaded"]
    /\ loadPc = "done"
    /\ readers = <<>>
    /\ inflight =
         LET crop == CropRegion(RankerFace.landmarks)
         IN  <<[pc |-> "array", image |-> 1,
                calls |-> <<"estimateFaces", "getImageData", "predict">>,
                faces |-> 1,
                landmarks |-> RankerFace.landmarks,
                crop |-> <<crop.x, crop.y, crop.width, crop.height>>,
                tensor |-> imageTensor(getImageData(crop.x, crop.y, crop.width, crop.height))]>>
    /\ lastRun = [exit |-> "none", calls |-> <<>>]

NextRanker ==
    /\ inflight # <<>>
    /\ \E probs \in RankerVectors : ClassifierResolves(1, probs)

SpecRanker == InitRanker /\ [][NextRanker]_vars

----------------------------------------------------------------------------
(* Properties *)

ModelsReady == models.faceDetector # "null" /\ models.emotionDetector # "null"

FailedStatuses == {StatusNoFace, StatusError}

C2_NoFaceDetected ==
    [][\A i \in 1..MaxInFlight :
          LocalizerResolves(i, <<>>) =>
              /\ prediction' = StatusNoFace
              /\ emotionPredictions' = Null
              /\ shownResults' = Null
              /\ lastRun'.exit = "noFace"
              /\ \A k \in 1..Len(lastRun'.calls) : lastRun'.calls[k] # "predict"
              /\ Len(inflight') = Len(inflight) - 1]_vars

\* a request has just ended on zero faces
C2_Witness ==
    /\ lastRun.exit = "noFace"
    /\ lastRun.calls = <<"estimateFaces">>
    /\ prediction = StatusNoFace
    /\ emotionPredictions = Null
    /\ inflight = <<>>

\* C3: whenever the status is one of the two failure strings no ranked result
\* is present; a ranked result is present only with the success status.
C3_NoResultOnFailure ==
    /\ (prediction \in FailedStatuses => emotionPredictions = Null)
    /\ (emotionPredictions # Null => prediction = StatusAnalyzed)

C5_InvalidGeometryRejected ==
    \A i \in 1..Len(inflight) :
        inflight[i].pc = "array" =>
            inflight[i].landmarks[6][1] > inflight[i].landmarks[5][1]

\* C6 as stated: a stored result has exactly one entry per emotion label and
\* no entry with an undefined label.
C6_SevenLabelledEntries ==
    emotionPredictions # Null =>
        /\ Len(emotionPredictions.value) = Len(emotions)
        /\ \A k \in 1..Len(emotionPredictions.value) :
              \E e \in 1..Len(emotions) : emotionPredictions.value[k].emotion = emotions[e]

\* a call of detectEmotion that passed the guard ends in this step
AcceptedCallEnds ==
    /\ (lastRun' # lastRun \/ Len(inflight') < Len(inflight))
    /\ lastRun'.exit # "line86"

\* C7 as stated: every exit of an accepted request reports its outcome as a
\* status.
C7_EveryExitReportsStatus ==
    [][AcceptedCallEnds => prediction' \in {StatusAnalyzed, StatusNoFace, StatusError}]_vars

\* C8: no listed entry has a scaled probability <= 0.0001, and the listed
\* probabilities never increase.
C8_AboveThresholdNonIncreasing ==
    shownResults # Null =>
        LET r == shownResults.value
        IN  /\ \A k \in 1..Len(r) : r[k].probability > Threshold
            /\ \A k \in 1..(Len(r) - 1) : r[k].probability >= r[k + 1].probability

\* an entry exactly at the threshold was dropped and two different
\* probabilities are listed
C8_Witness ==
    /\ shownResults # Null
    /\ \E k \in 1..Len(emotionPredictions.value) :
          emotionPredictions.value[k].probability = Threshold
    /\ Len(shownResults.value) >= 2
    /\ shownResults.value[1].probability > shownResults.value[Len(shownResults.value)].probability

\* the entries above the threshold, each at the position given by the number
\* of entries that are larger or equal-and-earlier
Reference(preds) ==
    LET kept == {i \in 1..Len(preds) : preds[i].probability > Threshold}
        before(i) == {j \in kept : \/ preds[j].probability > preds[i].probability
                                   \/ (preds[j].probability = preds[i].probability /\ j < i)}
    IN  [k \in 1..Cardinality(kept) |->
            preds[CHOOSE i \in kept : Cardinality(before(i)) = k - 1]]

ExampleRanked ==
    <<[emotion |-> "Happy", probability |-> 95000000],
      [emotion |-> "Neutral", probability |-> 2000000],
      [emotion |-> "Angry", probability |-> 1000000],
      [emotion |-> "Sad", probability |-> 1000000],
      [emotion |-> "Surprised", probability |-> 1000000]>>

\* C9: the listed entries are the stored entries above the threshold in
\* descending order, equal probabilities in enumeration order; the vector
\* [0.01,0,0,0.95,0.02,0.01,0.01] lists Happy, Neutral, Angry, Sad, Surprised.
C9_FilterThenStableSort ==
    shownResults # Null =>
        /\ shownResults.value = Reference(emotionPredictions.value)
        /\ (emotionPredictions.value = emotionResults(ExampleVector) =>
               shownResults.value = ExampleRanked)

\* the example vector has been classified and listed
C9_Witness == shownResults = Some(ExampleRanked)

\* C10: a request whose first face has P_l.x > P_r.x extracts the square
\* x = P_n.x - half, y = P_n.y - half, width = height = 2*half > 0 with
\* half = (P_l.x - P_r.x)/2 + 5, also where that leaves the image.
C10_SquareCrop ==
    \A i \in 1..Len(inflight) :
        LET lm == inflight[i].landmarks
            crop == inflight[i].crop
        IN  (inflight[i].pc = "array" /\ lm[6][1] > lm[5][1]) =>
                /\ crop[3] = crop[4]
                /\ crop[3] > 0
                /\ crop[3] = (lm[6][1] - lm[5][1]) + 10
                /\ 2 * crop[1] = 2 * lm[3][1] - crop[3]
                /\ 2 * crop[2] = 2 * lm[3][2] - crop[3]

\* a valid face whose square starts left of and above the image
C10_Witness ==
    \E i \in 1..Len(inflight) :
        /\ inflight[i].pc = "array"
        /\ inflight[i].landmarks[6][1] > inflight[i].landmarks[5][1]
        /\ inflight[i].crop[1] < 0
        /\ inflight[i].crop[2] < 0

\* C11: applying the render's filter and sort to its own output gives the
\* same ordered sequence.
C11_RankerIdempotent ==
    emotionPredictions # Null =>
        rendered(rendered(emotionPredictions.value)) = rendered(emotionPredictions.value)

\* the ranker dropped an entry, reordered the rest and listed two equal
\* probabilities
C11_Witness ==
    /\ shownResults # Null
    /\ Len(shownResults.value) < Len(emotionPredictions.value)
    /\ shownResults.value # filter(emotionPredictions.value)
    /\ \E k \in 1..(Len(shownResults.value) - 1) :
          shownResults.value[k].probability = shownResults.value[k + 1].probability

\* C12: the tensor handed to the classifier has shape [1,48,48,1] whatever
\* the side of the extracted square.
C12_TensorShape ==
    \A i \in 1..Len(inflight) :
        inflight[i].pc = "array" => inflight[i].tensor = <<1, 48, 48, 1>>

\* the classifier was called on a crop that is smaller than 48 pixels a side
C12_Witness ==
    \E i \in 1..Len(inflight) :
        /\ inflight[i].pc = "array"
        /\ inflight[i].crop[3] > 0
        /\ inflight[i].crop[3] < 48
        /\ inflight[i].tensor = <<1, 48, 48, 1>>

StageOrder == <<"estimateFaces", "getImageData", "predict">>

\* the collaborator calls of every request follow the stage order, each made
\* at most once, the localizer first
CallsInStageOrder ==
    /\ \A i \in 1..Len(inflight) :
          /\ inflight[i].pc = "estimateFaces" => inflight[i].calls = <<"estimateFaces">>
          /\ inflight[i].pc = "array" => inflight[i].calls = StageOrder
    /\ \E n \in 0..Len(StageOrder) : lastRun.calls = SubSeq(StageOrder, 1, n)
    /\ (lastRun.exit = "noFace" => lastRun.calls = <<"estimateFaces">>)
    /\ (lastRun.exit = "ranked" => lastRun.calls = StageOrder)

\* C13 as stated: the stages run in the order localize, crop, normalize,
\* classify, each collaborator called at most once, and the classifier is
\* reached only by a request whose first face gave a valid crop
\* (P_l.x > P_r.x, so a positive side).
C13_ClassifierOnlyAfterValidCrop ==
    /\ CallsInStageOrder
    /\ \A i \in 1..Len(inflight) :
          inflight[i].pc = "array" =>
              /\ inflight[i].landmarks[6][1] > inflight[i].landmarks[5][1]
              /\ inflight[i].crop[3] > 0

Labels == <<"Angry", "Disgust", "Fear", "Happy", "Neutral", "Sad", "Surprised">>

\* C14: the stored entries are in index order, entry i carries the label at
\* enumeration position i and probability raw[i] x 100, which lies in
\* [0, 100] for a raw value in [0, 1].
C14_IndexToLabel ==
    [][\A i \in 1..MaxInFlight : \A probs \in ClassifierOutputs :
          ClassifierResolves(i, probs) =>
              /\ ~emotionPredictions'.null
              /\ Len(emotionPredictions'.value) = Len(probs)
              /\ \A k \in 1..Len(probs) :
                    /\ emotionPredictions'.value[k].probability = 100 * probs[k]
                    /\ (probs[k] \in 0..1000000 =>
                           emotionPredictions'.value[k].probability \in 0..100000000)
                    /\ (k <= 7 => emotionPredictions'.value[k].emotion = Labels[k])]_vars

\* the example vector is stored: Angry 1, Happy 95, Surprised 1 at positions
\* 1, 4 and 7
C14_Witness ==
    /\ ~emotionPredictions.null
    /\ Len(emotionPredictions.value) = 7
    /\ emotionPredictions.value[1] = [emotion |-> "Angry", probability |-> 1000000]
    /\ emotionPredictions.value[4] = [emotion |-> "Happy", probability |-> 95000000]
    /\ emotionPredictions.value[7] = [emotion |-> "Surprised", probability |-> 1000000]

\* C15: when the localizer reports several faces the request goes on exactly
\* as if it had reported the first one alone: it fails only where the first
\* face alone makes it fail, and otherwise awaits the classifier with the
\* first face's landmarks, crop and tensor, nothing else changed.
C15_OnlyFirstFace ==
    [][\A i \in 1..MaxInFlight :
          (i <= Len(inflight) /\ inflight[i].pc = "estimateFaces" /\ inflight' # inflight) =>
              \A faces \in FaceLists :
                  (Len(faces) > 1 /\ LocalizerResolves(i, faces)) =>
                      IF Len(inflight') < Len(inflight)
                      THEN LocalizerResolves(i, <<faces[1]>>)
                      ELSE LET lm == faces[1].landmarks
                               req == inflight'[i]
                           IN  /\ req.pc = "array"
                               /\ req.image = inflight[i].image
                               /\ req.landmarks = lm
                               /\ req.crop[3] = (lm[6][1] - lm[5][1]) + 10
                               /\ req.crop[4] = req.crop[3]
                               /\ 2 * req.crop[1] = 2 * lm[3][1] - req.crop[3]
                               /\ 2 * req.crop[2] = 2 * lm[3][2] - req.crop[3]
                               /\ req.tensor = <<1, 48, 48, 1>>
                               /\ UNCHANGED <<selectedImage, prediction, emotionPredictions,
                                              isLoading, lastRun>>]_vars

\* the localizer reported two faces with different geometry and the request
\* awaits the classifier on the first one's crop
C15_Witness ==
    \E i \in 1..Len(inflight) :
        /\ inflight[i].pc = "array"
        /\ inflight[i].faces = 2
        /\ inflight[i].landmarks = Face(<<20, 30>>, 0, 10).landmarks
        /\ inflight[i].crop = <<10, 20, 20, 20>>

\* C16: a request that was started for an image that is no longer the selected
\* one ends without writing the status or the ranked result.
C16_StaleCompletionDoesNotWrite ==
    [][\A i \in 1..MaxInFlight :
          (/\ i <= Len(inflight)
           /\ inflight' = RemoveAt(inflight, i)
           /\ inflight[i].image # selectedImage) =>
              UNCHANGED <<prediction, emotionPredictions>>]_vars

\* C17: isLoading is true exactly while a detection request is in flight, and
\* once an accepted call has ended, by whichever exit, with none in flight the
\* Detect button is enabled again.
C17_LoadingTracksRequest ==
    /\ isLoading <=> inflight # <<>>
    /\ (lastRun.exit \notin {"none", "line86"} /\ inflight = <<>>) => ~ButtonDisabled

\* a call left by the null-context return after an earlier request had been
\* ranked: the flag is down and the button enabled
C17_Witness ==
    /\ lastRun.exit = "line96"
    /\ prediction = StatusAnalyzed
    /\ ~isLoading
    /\ ~ButtonDisabled

\* the steps of handleImageUpload taken alone: a readable result replaces the
\* selected image and resets status and ranked result to null; a result that
\* is not a string, and a change event with or without a file, leave all
\* three unchanged
UploadEffects ==
    [][/\ \A i \in 1..MaxReaders :
            /\ ReaderOnload(i, TRUE) =>
                   /\ selectedImage' = readers[i]
                   /\ prediction' = "null"
                   /\ emotionPredictions' = Null
                   /\ shownResults' = Null
            /\ ReaderOnload(i, FALSE) =>
                   UNCHANGED <<selectedImage, prediction, emotionPredictions>>
       /\ \A file \in Images \cup {NoFile} :
            handleImageUpload(file) =>
                UNCHANGED <<selectedImage, prediction, emotionPredictions>>]_vars

\* C18: a readable upload replaces the selected image and resets status and
\* ranked result to null, and from then on no ranked result of a request that
\* was started for an earlier image is shown for the new image; an upload
\* event with no file or a result that is not a string changes none of the
\* three.
C18_UploadResets ==
    [][/\ \A i \in 1..MaxReaders :
            /\ ReaderOnload(i, TRUE) =>
                   /\ selectedImage' = readers[i]
                   /\ prediction' = "null"
                   /\ emotionPredictions' = Null
            /\ ReaderOnload(i, FALSE) =>
                   UNCHANGED <<selectedImage, prediction, emotionPredictions>>
       /\ handleImageUpload(NoFile) =>
              UNCHANGED <<selectedImage, prediction, emotionPredictions>>
       /\ \A i \in 1..MaxInFlight :
            (/\ i <= Len(inflight)
             /\ inflight' = RemoveAt(inflight, i)
             /\ inflight[i].image # selectedImage) =>
                shownResults' = Null]_vars

====
